---- MODULE Spec2Model ----
(***************************************************************************)
(* Model of dm_collector_c (src/dm_collector_c/dm_collector_c.cpp): the    *)
(* Python extension that builds DIAG log-configuration commands            *)
(* (disable_logs, enable_logs, generate_diag_cfg) and extracts log         *)
(* packets from the fed byte stream (feed_binary, receive_log_packet).     *)
(*                                                                         *)
(* The headers consts.h, hdlc.h, log_config.h and log_packet.h are not     *)
(* part of the source at hand: the catalog, the equipment-id projection,   *)
(* the command encoder, the deframer and the two packet classifiers are    *)
(* modelled from the specification and are marked so in the map.           *)
(***************************************************************************)
EXTENDS Integers, Sequences, FiniteSets, TLC

(***************************************************************************)
(* Bounds                                                                  *)
(***************************************************************************)
MaxNames == 2        \* longest type_names sequence
MaxFailAt == 2       \* the sink's failing write is one of the first MaxFailAt
MaxFrames == 2       \* complete frames held by the inbound buffer
MaxOver == 0         \* long frames reach MaxOver bytes past the 8-bit wrap
MaxPartial == 1      \* bytes of an unterminated frame at the buffer's end
MaxPayload == 2      \* bytes of a payload sent through the frame encoder
MaxFeeds == 2        \* feed_binary calls that deliver one encoded frame

(***************************************************************************)
(* Catalog (consts.h, log_config.h)                                        *)
(***************************************************************************)
Modem_debug_message == 8171            \* 0x1FEB

NonString == "<nonstr>"                \* an item that is not a string
NotASequence == <<"<notseq>">>         \* an argument that is no sequence

Names == {"dbg", "wcdma", "lte", "bogus", NonString}

\* find_ids: the ids a name resolves to, in table order; none if unknown
find_ids(name) ==
    CASE name = "dbg"   -> <<Modem_debug_message>>
      [] name = "wcdma" -> <<16677>>               \* 0x4125
      [] name = "lte"   -> <<45249, 45248>>        \* 0xB0C1, 0xB0C0
      [] OTHER          -> << >>

PyString_Check(item) == item # NonString

get_equip_id(type_id) == (type_id \div 4096) % 16

(***************************************************************************)
(* Sequence helpers (std::sort, std::unique, vector::erase)                *)
(***************************************************************************)
RECURSIVE InsertSorted(_, _)
InsertSorted(x, s) ==
    IF s = << >> THEN <<x>>
    ELSE IF x <= Head(s) THEN <<x>> \o s
    ELSE <<Head(s)>> \o InsertSorted(x, Tail(s))

RECURSIVE Sort(_)
Sort(s) == IF s = << >> THEN << >> ELSE InsertSorted(Head(s), Sort(Tail(s)))

\* std::unique: drops each element equal to its predecessor
RECURSIVE Unique(_)
Unique(s) ==
    IF Len(s) <= 1 THEN s
    ELSE IF s[1] = s[2] THEN Unique(Tail(s))
    ELSE <<s[1]>> \o Unique(Tail(s))

\* vector::erase(position): removes the one element at index k
EraseAt(s, k) == SubSeq(s, 1, k - 1) \o SubSeq(s, k + 1, Len(s))

Range(s) == {s[k] : k \in 1..Len(s)}

(***************************************************************************)
(* sort_type_ids: sort, unique and bucketing                               *)
(***************************************************************************)
\* variant of BucketLoop that closes the bucket at every id
RECURSIVE BucketLoop_SplitEach(_, _, _, _, _)
BucketLoop_SplitEach(ids, i, j, last_equip_id, out) ==
    IF j >= Len(ids)
    THEN IF i # j THEN Append(out, SubSeq(ids, i + 1, j)) ELSE out
    ELSE IF j # 0
    THEN BucketLoop_SplitEach(ids, j, j + 1, last_equip_id,
                              Append(out, SubSeq(ids, i + 1, j)))
    ELSE BucketLoop_SplitEach(ids, i, j + 1, last_equip_id, out)

\* the loop over j; i is the start of the open bucket (both 0-based)
RECURSIVE BucketLoop(_, _, _, _, _)
BucketLoop(ids, i, j, last_equip_id, out) ==
    IF j >= Len(ids)
    THEN IF i # j THEN Append(out, SubSeq(ids, i + 1, j)) ELSE out
    ELSE LET e == get_equip_id(ids[j + 1]) IN
         IF j # 0 /\ last_equip_id # e
         THEN BucketLoop(ids, j, j + 1, e, Append(out, SubSeq(ids, i + 1, j)))
         ELSE BucketLoop(ids, i, j + 1, e, out)

sort_type_ids(type_ids) == BucketLoop(Unique(Sort(type_ids)), 0, 0, -1, << >>)

(***************************************************************************)
(* Commands and their encoding (log_config.h)                              *)
(***************************************************************************)
Ops == {"DISABLE", "SET_MASK", "DEBUG_LTE_ML1", "DEBUG_WCDMA_L1"}

NoOp == "NO_OP"

EmptyBuffer == [op |-> "EMPTY", ids |-> << >>]

\* encode_log_config: the binary buffer of a command, here the command
\* itself; empty for the operation the encoder cannot serialize (enc_bad)
encode_log_config(op, type_ids, enc_bad) ==
    IF op = enc_bad THEN EmptyBuffer ELSE [op |-> op, ids |-> type_ids]

(***************************************************************************)
(* Transport objects: the attributes the object has and how its write      *)
(* behaves.  fail_at = 0: every write succeeds; otherwise the fail_at-th   *)
(* write of a call fails, returning a failure value ("ret") or raising     *)
(* ("raise").                                                              *)
(***************************************************************************)
Transports ==
    [caps : SUBSET {"read", "write"}, fail_at : 0..MaxFailAt,
     mode : {"ret", "raise"}]

check_file(o) == "write" \in o.caps

check_serial_port(o) == "read" \in o.caps

PySequence_Check(seq) == seq # NotASequence

\* the progress of one outbound call
\*   log     the buffers handed to write, in order
\*   wfailed a write of this call failed
\*   pyerr   a Python exception is pending although send_msg went on
\*   crashed the process died
\*   err     the exception the call raises, "" if none
\*   bad     the operation whose buffer came back empty, NoOp if none
StartCall == [log |-> << >>, wfailed |-> FALSE, pyerr |-> FALSE,
              crashed |-> FALSE, err |-> "", bad |-> NoOp]

\* send_msg: calls o.write(frame) and drops the result.  A call that yields
\* NULL (write missing, or write raised) is followed by Py_DECREF(NULL),
\* which is undefined: the process dies (ub = "crash") or goes on (ub =
\* "survive").  send_msg returns true whenever it returns.
send_msg(o, buf, st, ub) ==
    IF "write" \notin o.caps
    THEN [st EXCEPT !.pyerr = TRUE, !.crashed = (ub = "crash")]
    ELSE LET n == Len(st.log) + 1
             wrote == [st EXCEPT !.log = Append(st.log, buf)]
         IN  IF n # o.fail_at THEN wrote
             ELSE IF o.mode = "ret" THEN [wrote EXCEPT !.wfailed = TRUE]
             ELSE [wrote EXCEPT !.wfailed = TRUE, !.pyerr = TRUE,
                                !.crashed = (ub = "crash")]

\* encode one command and send it; an empty buffer raises RuntimeError
\* (the pattern of lines 201-208, 209-216, 224-231 and 299-306)
EncodeAndSend(o, op, type_ids, st, enc_bad, ub) ==
    LET buf == encode_log_config(op, type_ids, enc_bad) IN
    IF buf # EmptyBuffer THEN send_msg(o, buf, st, ub)
    ELSE [st EXCEPT !.err = "RuntimeError", !.bad = op]

Stopped(st) == st.crashed \/ st.err # ""

(***************************************************************************)
(* generate_log_config_msgs                                                *)
(***************************************************************************)
\* variant of ResolveNames that passes over a name it cannot resolve
RECURSIVE ResolveNames_SkipUnknown(_, _, _)
ResolveNames_SkipUnknown(type_names, i, type_ids) ==
    IF i > Len(type_names) THEN [ok |-> TRUE, ids |-> type_ids]
    ELSE IF PyString_Check(type_names[i])
    THEN ResolveNames_SkipUnknown(type_names, i + 1,
                                  type_ids \o find_ids(type_names[i]))
    ELSE ResolveNames_SkipUnknown(type_names, i + 1, type_ids)

\* variant of ResolveNames that refuses an item that is not a string
RECURSIVE ResolveNames_RejectNonString(_, _, _)
ResolveNames_RejectNonString(type_names, i, type_ids) ==
    IF i > Len(type_names) THEN [ok |-> TRUE, ids |-> type_ids]
    ELSE LET found == IF PyString_Check(type_names[i])
                      THEN find_ids(type_names[i]) ELSE << >>
         IN  IF Len(found) = 0 THEN [ok |-> FALSE, ids |-> type_ids]
             ELSE ResolveNames_RejectNonString(type_names, i + 1,
                                               type_ids \o found)

\* lines 172-189: resolve every name; stops at the first unknown name
RECURSIVE ResolveNames(_, _, _)
ResolveNames(type_names, i, type_ids) ==
    IF i > Len(type_names) THEN [ok |-> TRUE, ids |-> type_ids]
    ELSE IF PyString_Check(type_names[i])
    THEN LET found == find_ids(type_names[i]) IN
         IF Len(found) = 0 THEN [ok |-> FALSE, ids |-> type_ids]
         ELSE ResolveNames(type_names, i + 1, type_ids \o found)
    ELSE ResolveNames(type_names, i + 1, type_ids)

\* lines 192-197: index of the first Modem_debug_message, 0 if absent
DebugInd(type_ids) ==
    IF \E k \in 1..Len(type_ids) : type_ids[k] = Modem_debug_message
    THEN CHOOSE k \in 1..Len(type_ids) :
            /\ type_ids[k] = Modem_debug_message
            /\ \A m \in 1..(k - 1) : type_ids[m] # Modem_debug_message
    ELSE 0

\* lines 222-232: one SET_MASK per bucket
RECURSIVE SendMasks(_, _, _, _, _, _)
SendMasks(o, type_id_vectors, i, st, enc_bad, ub) ==
    IF i > Len(type_id_vectors) \/ Stopped(st) THEN st
    ELSE SendMasks(o, type_id_vectors, i + 1,
                   EncodeAndSend(o, "SET_MASK", type_id_vectors[i], st,
                                 enc_bad, ub),
                   enc_bad, ub)

\* variant of SendDebug that goes on to the second command after the
\* first failed to encode
SendDebug_NoAbort(o, type_ids, st, enc_bad, ub) ==
    LET s1 == EncodeAndSend(o, "DEBUG_LTE_ML1", type_ids, st, enc_bad, ub) IN
    IF s1.crashed THEN s1
    ELSE EncodeAndSend(o, "DEBUG_WCDMA_L1", type_ids, s1, enc_bad, ub)

\* lines 198-218: the two debug-subsystem commands
SendDebug(o, type_ids, st, enc_bad, ub) ==
    LET s1 == EncodeAndSend(o, "DEBUG_LTE_ML1", type_ids, st, enc_bad, ub) IN
    IF Stopped(s1) THEN s1
    ELSE EncodeAndSend(o, "DEBUG_WCDMA_L1", type_ids, s1, enc_bad, ub)

generate_log_config_msgs(o, type_names, st, enc_bad, ub) ==
    LET r == ResolveNames(type_names, 1, << >>) IN
    IF ~r.ok THEN [st EXCEPT !.err = "ValueError"]
    ELSE LET debug_ind == DebugInd(r.ids)
             type_ids == IF debug_ind # 0 THEN EraseAt(r.ids, debug_ind)
                         ELSE r.ids
             s1 == IF debug_ind # 0
                   THEN SendDebug(o, type_ids, st, enc_bad, ub)
                   ELSE st
         IN  IF Stopped(s1) THEN s1
             ELSE SendMasks(o, sort_type_ids(type_ids), 1, s1, enc_bad, ub)

(***************************************************************************)
(* The three outbound entry points, as the outcome of one call             *)
(***************************************************************************)
Outcome(name, o, st, result) ==
    [op |-> name, obj |-> o.caps, log |-> st.log, wfailed |-> st.wfailed,
     pyerr |-> st.pyerr, bad |-> st.bad,
     result |-> IF st.crashed THEN "crash"
                ELSE IF st.err # "" THEN st.err ELSE result]

Raise(st, e) == [st EXCEPT !.err = e]

\* variant of disable_logs that encodes the wrong operation
disable_logs_WrongOp(o, enc_bad, ub) ==
    IF ~check_serial_port(o)
    THEN Outcome("disable_logs", o, Raise(StartCall, "TypeError"), "")
    ELSE LET buf == encode_log_config("SET_MASK", << >>, enc_bad) IN
         IF buf = EmptyBuffer
         THEN Outcome("disable_logs", o, [StartCall EXCEPT !.bad = "DISABLE"],
                      "False")
         ELSE Outcome("disable_logs", o, send_msg(o, buf, StartCall, ub),
                      "True")

disable_logs(o, enc_bad, ub) ==
    IF ~check_serial_port(o)
    THEN Outcome("disable_logs", o, Raise(StartCall, "TypeError"), "")
    ELSE LET buf == encode_log_config("DISABLE", << >>, enc_bad) IN
         IF buf = EmptyBuffer
         THEN Outcome("disable_logs", o, [StartCall EXCEPT !.bad = "DISABLE"],
                      "False")
         ELSE Outcome("disable_logs", o, send_msg(o, buf, StartCall, ub),
                      "True")

enable_logs(o, sequence, enc_bad, ub) ==
    IF ~check_serial_port(o)
    THEN Outcome("enable_logs", o, Raise(StartCall, "TypeError"), "")
    ELSE IF ~PySequence_Check(sequence)
    THEN Outcome("enable_logs", o, Raise(StartCall, "TypeError"), "")
    ELSE Outcome("enable_logs", o,
                 generate_log_config_msgs(o, sequence, StartCall, enc_bad, ub),
                 "True")

\* variant of generate_diag_cfg that does not send the Disable command
generate_diag_cfg_NoDisable(o, sequence, enc_bad, ub) ==
    IF ~check_file(o)
    THEN Outcome("generate_diag_cfg", o, Raise(StartCall, "TypeError"), "")
    ELSE IF ~PySequence_Check(sequence)
    THEN Outcome("generate_diag_cfg", o, Raise(StartCall, "TypeError"), "")
    ELSE Outcome("generate_diag_cfg", o,
                 generate_log_config_msgs(o, sequence, StartCall, enc_bad, ub),
                 "True")

generate_diag_cfg(o, sequence, enc_bad, ub) ==
    IF ~check_file(o)
    THEN Outcome("generate_diag_cfg", o, Raise(StartCall, "TypeError"), "")
    ELSE IF ~PySequence_Check(sequence)
    THEN Outcome("generate_diag_cfg", o, Raise(StartCall, "TypeError"), "")
    ELSE LET s1 == EncodeAndSend(o, "DISABLE", << >>, StartCall, enc_bad, ub)
         IN  IF Stopped(s1) THEN Outcome("generate_diag_cfg", o, s1, "")
             ELSE Outcome("generate_diag_cfg", o,
                          generate_log_config_msgs(o, sequence, s1, enc_bad,
                                                   ub),
                          "True")

(***************************************************************************)
(* Inbound: frames, the deframer (hdlc.h) and the classifiers              *)
(* (log_packet.h).  A frame is described by what the code asks of it: its  *)
(* unescaped size, whether its checksum matches, and the verdicts of       *)
(* is_log_packet and is_debug_packet on its bytes.                         *)
(***************************************************************************)
FrameLens == {2} \cup {256 - 14 + k : k \in 0..MaxOver}

Frames == [len : FrameLens, crc : BOOLEAN, is_log : BOOLEAN,
           is_debug : BOOLEAN]

NoFrame == [len |-> 0, crc |-> FALSE, is_log |-> FALSE, is_debug |-> FALSE]

is_log_packet(frame) == frame.is_log

is_debug_packet(frame) == frame.is_debug

\* get_next_frame: pops the earliest complete frame, if there is one
get_next_frame(buf) ==
    IF buf = << >>
    THEN [success |-> FALSE, frame |-> NoFrame, crc_correct |-> FALSE,
          rest |-> buf]
    ELSE [success |-> TRUE, frame |-> Head(buf), crc_correct |-> Head(buf).crc,
          rest |-> Tail(buf)]

\* lines 380-386: the 14-byte header put in front of a debug packet;
\* tmp[2] = (char)(frame.size()+14) keeps the low eight bits
SyntheticHeaderLen == 14

DebugHeader(size) ==
    <<0, 0,
      (size + SyntheticHeaderLen) % 256, 0, 235, 31,
      0, 0, 0, 0,
      0, 0, 0, 0>>

\* the header fields decode_log_packet reads, little-endian
HeaderLength(hdr) == hdr[3] + 256 * hdr[4]

HeaderTypeId(hdr) == hdr[5] + 256 * hdr[6]

\* what receive_log_packet returns: None, or the value decode_log_packet
\* makes of (bytes, length, skip_decoding), alone or paired with the time
NoneRet == [path |-> "none", header |-> << >>, offset |-> 0, length |-> 0,
            skip |-> FALSE, with_ts |-> FALSE]

decode_log_packet(path, header, offset, length, skip_decoding) ==
    [path |-> path, header |-> header, offset |-> offset, length |-> length,
     skip |-> skip_decoding, with_ts |-> FALSE]

\* variant of receive_log_packet that decodes whatever the checksum says
receive_log_packet_IgnoreCrc(buf, skip_decoding, include_timestamp) ==
    LET g == get_next_frame(buf)
        frame == g.frame
        decoded ==
            IF g.success
            THEN IF is_log_packet(frame)
                 THEN decode_log_packet("log", << >>, 2, frame.len - 2,
                                        skip_decoding)
                 ELSE IF is_debug_packet(frame)
                 THEN decode_log_packet("debug", DebugHeader(frame.len), 0,
                                        frame.len + SyntheticHeaderLen,
                                        skip_decoding)
                 ELSE NoneRet
            ELSE NoneRet
    IN  [rest |-> g.rest, frame |-> frame,
         ret |-> IF decoded # NoneRet
                 THEN [decoded EXCEPT !.with_ts = include_timestamp]
                 ELSE NoneRet]

\* variant of receive_log_packet without the debug-packet branch
receive_log_packet_NoDebug(buf, skip_decoding, include_timestamp) ==
    LET g == get_next_frame(buf)
        frame == g.frame
        decoded ==
            IF g.success /\ g.crc_correct /\ is_log_packet(frame)
            THEN decode_log_packet("log", << >>, 2, frame.len - 2,
                                   skip_decoding)
            ELSE NoneRet
    IN  [rest |-> g.rest, frame |-> frame,
         ret |-> IF decoded # NoneRet
                 THEN [decoded EXCEPT !.with_ts = include_timestamp]
                 ELSE NoneRet]

\* variant of receive_log_packet that tries the debug check first
receive_log_packet_DebugFirst(buf, skip_decoding, include_timestamp) ==
    LET g == get_next_frame(buf)
        frame == g.frame
        decoded ==
            IF g.success /\ g.crc_correct
            THEN IF is_debug_packet(frame)
                 THEN decode_log_packet("debug", DebugHeader(frame.len), 0,
                                        frame.len + SyntheticHeaderLen,
                                        skip_decoding)
                 ELSE IF is_log_packet(frame)
                 THEN decode_log_packet("log", << >>, 2, frame.len - 2,
                                        skip_decoding)
                 ELSE NoneRet
            ELSE NoneRet
    IN  [rest |-> g.rest, frame |-> frame,
         ret |-> IF decoded # NoneRet
                 THEN [decoded EXCEPT !.with_ts = include_timestamp]
                 ELSE NoneRet]

\* lines 359-408
receive_log_packet(buf, skip_decoding, include_timestamp) ==
    LET g == get_next_frame(buf)
        frame == g.frame
        decoded ==
            IF g.success /\ g.crc_correct
            THEN IF is_log_packet(frame)
                 THEN decode_log_packet("log", << >>, 2, frame.len - 2,
                                        skip_decoding)
                 ELSE IF is_debug_packet(frame)
                 THEN decode_log_packet("debug", DebugHeader(frame.len), 0,
                                        frame.len + SyntheticHeaderLen,
                                        skip_decoding)
                 ELSE NoneRet
            ELSE NoneRet
    IN  [rest |-> g.rest, frame |-> frame,
         ret |-> IF decoded # NoneRet
                 THEN [decoded EXCEPT !.with_ts = include_timestamp]
                 ELSE NoneRet]

(***************************************************************************)
(* The frame encoder and the deframer on bytes (hdlc.h).  A frame on the   *)
(* wire is a flag, the escaped payload and checksum, and a flag; the       *)
(* checksum is the 16-bit CRC of the DIAG protocol (CRC-16/X.25), low      *)
(* byte first.                                                             *)
(***************************************************************************)
Flag == 126          \* 0x7e
Esc == 125           \* 0x7d
EscMask == 32        \* 0x20

\* payload bytes: NUL, two bytes whose checksum holds Esc (25) or Flag (42),
\* the escaped form of Flag (94), Esc and Flag
Bytes == {0, 25, 42, 94, Esc, Flag}

Payloads == UNION {[1..n -> Bytes] : n \in 0..MaxPayload}

RECURSIVE Xor(_, _)
Xor(a, b) ==
    IF a = 0 THEN b
    ELSE IF b = 0 THEN a
    ELSE (((a % 2) + (b % 2)) % 2) + 2 * Xor(a \div 2, b \div 2)

RECURSIVE CrcBits(_, _)
CrcBits(c, n) ==
    IF n = 0 THEN c
    ELSE CrcBits(IF c % 2 = 1 THEN Xor(c \div 2, 33800) ELSE c \div 2, n - 1)

RECURSIVE CrcFold(_, _)
CrcFold(c, bs) ==
    IF bs = << >> THEN c
    ELSE CrcFold(CrcBits(Xor(c, Head(bs)), 8), Tail(bs))

calc_crc(bs) == Xor(CrcFold(65535, bs), 65535)

RECURSIVE Escape(_)
Escape(bs) ==
    IF bs = << >> THEN << >>
    ELSE (IF Head(bs) \in {Flag, Esc}
          THEN <<Esc, Xor(Head(bs), EscMask)>>
          ELSE <<Head(bs)>>) \o Escape(Tail(bs))

RECURSIVE Unescape(_)
Unescape(bs) ==
    IF bs = << >> THEN << >>
    ELSE IF Head(bs) = Esc
    THEN IF Len(bs) = 1 THEN << >>
         ELSE <<Xor(bs[2], EscMask)>> \o Unescape(Tail(Tail(bs)))
    ELSE <<Head(bs)>> \o Unescape(Tail(bs))

encode_hdlc_frame(payld) ==
    LET crc == calc_crc(payld) IN
    <<Flag>> \o Escape(payld \o <<crc % 256, crc \div 256>>) \o <<Flag>>

\* feed_binary: appends the bytes to the buffer
feed_binary(raw_buf, b) == raw_buf \o b

NoBytesFrame == [success |-> FALSE, data |-> << >>, crc_correct |-> FALSE]

\* variant of hdlc_get_next_frame that throws the buffered bytes away when
\* they hold no complete frame
hdlc_get_next_frame_DropPartial(raw_buf) ==
    LET starts == {k \in 1..Len(raw_buf) : raw_buf[k] # Flag}
        start == IF starts = {} THEN 0
                 ELSE CHOOSE k \in starts : \A m \in starts : k <= m
        ends == {k \in 1..Len(raw_buf) : k > start /\ raw_buf[k] = Flag}
        end == IF start = 0 \/ ends = {} THEN 0
               ELSE CHOOSE k \in ends : \A m \in ends : k <= m
    IN  IF end = 0 THEN NoBytesFrame @@ [rest |-> << >>]
        ELSE LET content == Unescape(SubSeq(raw_buf, start, end - 1))
                 n == Len(content)
             IN  [success |-> TRUE,
                  data |-> IF n >= 2 THEN SubSeq(content, 1, n - 2)
                           ELSE content,
                  crc_correct |->
                      /\ n >= 2
                      /\ calc_crc(SubSeq(content, 1, n - 2))
                            = content[n - 1] + (256 * content[n]),
                  rest |-> SubSeq(raw_buf, end + 1, Len(raw_buf))]

\* get_next_frame on bytes: passes over flags, takes the bytes up to the
\* next flag, unescapes them and checks the two trailing checksum bytes;
\* without a closing flag the buffer stays as it is
hdlc_get_next_frame(raw_buf) ==
    LET starts == {k \in 1..Len(raw_buf) : raw_buf[k] # Flag}
        start == IF starts = {} THEN 0
                 ELSE CHOOSE k \in starts : \A m \in starts : k <= m
        ends == {k \in 1..Len(raw_buf) : k > start /\ raw_buf[k] = Flag}
        end == IF start = 0 \/ ends = {} THEN 0
               ELSE CHOOSE k \in ends : \A m \in ends : k <= m
    IN  IF end = 0 THEN NoBytesFrame @@ [rest |-> raw_buf]
        ELSE LET content == Unescape(SubSeq(raw_buf, start, end - 1))
                 n == Len(content)
             IN  [success |-> TRUE,
                  data |-> IF n >= 2 THEN SubSeq(content, 1, n - 2)
                           ELSE content,
                  crc_correct |->
                      /\ n >= 2
                      /\ calc_crc(SubSeq(content, 1, n - 2))
                            = content[n - 1] + (256 * content[n]),
                  rest |-> SubSeq(raw_buf, end + 1, Len(raw_buf))]

\* the bytes of a C string: up to the first NUL
RECURSIVE UpToNul(_)
UpToNul(bs) ==
    IF bs = << >> \/ Head(bs) = 0 THEN << >>
    ELSE <<Head(bs)>> \o UpToNul(Tail(bs))

\* variant of send_msg_frame that passes the frame as a C string
send_msg_frame_CStr(b) == UpToNul(encode_hdlc_frame(b))

\* lines 115-118: the bytes send_msg hands to write, the whole frame
\* ("s#" with frame.size())
send_msg_frame(b) == encode_hdlc_frame(b)

\* variant of dm_feed_binary that takes the chunk as a C string
dm_feed_binary_CStr(raw_buf, b) == feed_binary(raw_buf, UpToNul(b))

\* lines 327-331: the whole chunk ("s#") goes to feed_binary
dm_feed_binary(raw_buf, b) == feed_binary(raw_buf, b)

(***************************************************************************)
(* State                                                                   *)
(***************************************************************************)
VARIABLES
    type_names,   \* the sequence of names the caller asks for
    call,         \* outcome of the latest outbound call
    live,         \* outcome of the latest enable_logs that returned True
    buffer,       \* complete frames fed and not yet taken, oldest first
    partial,      \* bytes fed after the last frame delimiter
    in_call,      \* the latest inbound call
    taken,        \* the frame that call took from the buffer, or NoFrame
    ret,          \* what that call returned
    payload,      \* the payload sent through send_msg
    pending,      \* bytes of its frame not yet fed back
    raw,          \* the deframer's buffer, as bytes
    feeds,        \* feed_binary calls made with those bytes
    out,          \* the frames get_next_frame produced from raw, in order
    took          \* "-" after a feed, else whether the latest
                  \* get_next_frame produced a "frame" or "none"

vars == <<type_names, call, live, buffer, partial, in_call, taken, ret,
          payload, pending, raw, feeds, out, took>>

hdlc_vars == <<payload, pending, raw, feeds, out, took>>

cmd_vars == <<type_names, call, live>>

pkt_vars == <<buffer, partial, in_call, taken, ret>>

NoCall == [op |-> "none", obj |-> {}, log |-> << >>, wfailed |-> FALSE,
           pyerr |-> FALSE, bad |-> NoOp, result |-> ""]

NameSeqs ==
    UNION {[1..n -> Names] : n \in 0..MaxNames} \cup {NotASequence}

EncBads == Ops \cup {NoOp}

UBs == {"crash", "survive"}

\* the surroundings of one outbound call: the object passed in, the
\* operation the encoder fails on, and the outcome of undefined behaviour.
\* Fields that cannot matter are pinned to one value.
CallEnvs ==
    {e \in [o : Transports, enc_bad : EncBads, ub : UBs] :
        /\ e.o.fail_at = 0 => e.o.mode = "ret"
        /\ "write" \notin e.o.caps => e.o.fail_at = 0
        /\ e.ub = "crash" =>
               \/ "write" \notin e.o.caps
               \/ e.o.fail_at # 0 /\ e.o.mode = "raise"}

InitCalls == call = NoCall /\ live = NoCall

InitBuffer ==
    /\ buffer = << >>
    /\ partial = 0
    /\ in_call = "none"
    /\ taken = NoFrame
    /\ ret = NoneRet

InitBytes ==
    /\ payload = << >>
    /\ pending = << >>
    /\ raw = << >>
    /\ feeds = 0
    /\ out = << >>
    /\ took = "-"

\* outbound: any request, nothing sent yet
InitCmd == type_names \in NameSeqs /\ InitCalls /\ InitBuffer /\ InitBytes

\* inbound: nothing fed yet
InitPkt == type_names = << >> /\ InitCalls /\ InitBuffer /\ InitBytes

\* loopback on bytes: send_msg has written the frame of some payload,
\* none of it is fed yet
InitHdlc ==
    /\ type_names = << >> /\ InitCalls /\ InitBuffer
    /\ payload \in Payloads
    /\ pending = send_msg_frame(payload)
    /\ raw = << >>
    /\ feeds = 0
    /\ out = << >>
    /\ took = "-"

(***************************************************************************)
(* Actions                                                                 *)
(***************************************************************************)
DisableLogs ==
    \E e \in CallEnvs :
        /\ call' = disable_logs(e.o, e.enc_bad, e.ub)
        /\ UNCHANGED <<type_names, live, pkt_vars, hdlc_vars>>

EnableLogs ==
    \E e \in CallEnvs :
        /\ call' = enable_logs(e.o, type_names, e.enc_bad, e.ub)
        /\ live' = IF call'.result = "True" THEN call' ELSE live
        /\ UNCHANGED <<type_names, pkt_vars, hdlc_vars>>

GenerateDiagCfg ==
    \E e \in CallEnvs :
        /\ call' = generate_diag_cfg(e.o, type_names, e.enc_bad, e.ub)
        /\ UNCHANGED <<type_names, live, pkt_vars, hdlc_vars>>

\* feed_binary: appends the chunk; a chunk holds the end of at most one
\* frame (fs) followed by tail bytes of the next
FeedBinary ==
    \E fs \in {<< >>} \cup {<<f>> : f \in Frames}, tail \in 0..MaxPartial :
        /\ Len(buffer) + Len(fs) <= MaxFrames
        /\ buffer' = buffer \o fs
        /\ partial' = IF fs = << >> THEN partial + tail ELSE tail
        /\ partial' <= MaxPartial
        /\ in_call' = "feed_binary"
        /\ taken' = NoFrame
        /\ ret' = NoneRet
        /\ UNCHANGED <<cmd_vars, hdlc_vars>>

ReceiveLogPacket ==
    \E skip_decoding \in BOOLEAN, include_timestamp \in BOOLEAN :
        LET r == receive_log_packet(buffer, skip_decoding, include_timestamp)
        IN  /\ buffer' = r.rest
            /\ taken' = r.frame
            /\ ret' = r.ret
            /\ in_call' = "receive_log_packet"
            /\ UNCHANGED <<partial, cmd_vars, hdlc_vars>>

\* feed_binary with the next n bytes of the frame
FeedBinaryBytes ==
    \E n \in 0..Len(pending) :
        /\ feeds < MaxFeeds
        /\ raw' = dm_feed_binary(raw, SubSeq(pending, 1, n))
        /\ pending' = SubSeq(pending, n + 1, Len(pending))
        /\ feeds' = feeds + 1
        /\ took' = "-"
        /\ UNCHANGED <<payload, out, cmd_vars, pkt_vars>>

\* line 359: the get_next_frame call of receive_log_packet
ReceiveFrameBytes ==
    LET g == hdlc_get_next_frame(raw) IN
        /\ raw' = g.rest
        /\ out' = IF g.success
                  THEN Append(out, [data |-> g.data, crc |-> g.crc_correct])
                  ELSE out
        /\ took' = IF g.success THEN "frame" ELSE "none"
        /\ UNCHANGED <<payload, pending, feeds, cmd_vars, pkt_vars>>

NextCmd == DisableLogs \/ EnableLogs \/ GenerateDiagCfg

NextPkt == FeedBinary \/ ReceiveLogPacket

SpecCmd == InitCmd /\ [][NextCmd]_vars

SpecPkt == InitPkt /\ [][NextPkt]_vars

\* outbound calls made while the inbound buffer holds data: the state
\* after one feed_binary of a frame and some bytes, and a short request
MixRequests == {<< >>, <<"dbg">>}

InitMix ==
    /\ type_names \in MixRequests
    /\ InitCalls
    /\ buffer \in {<<f>> : f \in Frames}
    /\ partial \in 0..MaxPartial
    /\ in_call = "feed_binary"
    /\ taken = NoFrame
    /\ ret = NoneRet
    /\ InitBytes

SpecMix == InitMix /\ [][NextCmd]_vars

NextHdlc == FeedBinaryBytes \/ ReceiveFrameBytes

SpecHdlc == InitHdlc /\ [][NextHdlc]_vars

(***************************************************************************)
(* Vocabulary of the properties                                            *)
(***************************************************************************)
DisableCmd == [op |-> "DISABLE", ids |-> << >>]

IsNameSeq == PySequence_Check(type_names)

\* some string of the request resolves to no id
HasUnknownName ==
    /\ IsNameSeq
    /\ \E k \in 1..Len(type_names) :
          PyString_Check(type_names[k]) /\ Len(find_ids(type_names[k])) = 0

\* the ids the request's strings resolve to
RequestedIds ==
    UNION {Range(find_ids(type_names[k])) :
              k \in {m \in 1..Len(type_names) : PyString_Check(type_names[m])}}

EnablePath == call.op \in {"enable_logs", "generate_diag_cfg"}

\* the call went through: no exception, no crash, every write was made
WentThrough ==
    /\ call.result = "True"
    /\ "write" \in call.obj
    /\ ~call.pyerr

MaskIdx(log) == {k \in 1..Len(log) : log[k].op = "SET_MASK"}

DebugIdx(log) ==
    {k \in 1..Len(log) : log[k].op \in {"DEBUG_LTE_ML1", "DEBUG_WCDMA_L1"}}

(***************************************************************************)
(* C1: enable_logs on a serial port with a request in which some name      *)
(* resolves to no id raises ValueError and hands nothing to write.         *)
(***************************************************************************)
C1_BatchAbortEnable ==
    (call.op = "enable_logs" /\ "read" \in call.obj /\ HasUnknownName)
        => (call.result = "ValueError" /\ call.log = << >>)

C1_Witness ==
    /\ call.op = "enable_logs"
    /\ call.obj = {"read", "write"}
    /\ Len(type_names) = 2
    /\ Len(find_ids(type_names[1])) > 0
    /\ PyString_Check(type_names[2]) /\ Len(find_ids(type_names[2])) = 0
    /\ call.result = "ValueError"

(***************************************************************************)
(* C2: generate_diag_cfg on a file with a request in which some name is    *)
(* unresolved aborts the whole batch: nothing is handed to write.          *)
(***************************************************************************)
C2_BatchAbortConfig ==
    (call.op = "generate_diag_cfg" /\ "write" \in call.obj /\ HasUnknownName)
        => call.log = << >>

(***************************************************************************)
(* C3: on the enable path every SET_MASK written holds ids of one          *)
(* equipment id, and the ids of all SET_MASK commands together are the     *)
(* requested ids without the debug-message id.                             *)
(***************************************************************************)
C3_EquipmentGrouping ==
    (EnablePath /\ WentThrough) =>
        /\ \A k \in MaskIdx(call.log) :
              \A a, b \in Range(call.log[k].ids) :
                  get_equip_id(a) = get_equip_id(b)
        /\ UNION {Range(call.log[k].ids) : k \in MaskIdx(call.log)}
              = RequestedIds \ {Modem_debug_message}

(***************************************************************************)
(* C4: when the requested ids hold the debug-message id, the enable path   *)
(* writes exactly two debug-subsystem commands, and no SET_MASK written    *)
(* holds the debug-message id.                                             *)
(***************************************************************************)
C4_DebugSpecialCase ==
    (EnablePath /\ WentThrough /\ Modem_debug_message \in RequestedIds) =>
        /\ Cardinality(DebugIdx(call.log)) = 2
        /\ \A k \in MaskIdx(call.log) :
              Modem_debug_message \notin Range(call.log[k].ids)

(***************************************************************************)
(* C5: the header put in front of a debug packet of L bytes has the        *)
(* 16-bit length field L + 14 and the type id 0x1FEB.                      *)
(***************************************************************************)
C5_DebugSynthesis ==
    (in_call = "receive_log_packet" /\ ret.path = "debug") =>
        /\ Len(ret.header) = SyntheticHeaderLen
        /\ HeaderLength(ret.header) = taken.len + SyntheticHeaderLen
        /\ HeaderTypeId(ret.header) = Modem_debug_message

(***************************************************************************)
(* C6: for a resolvable request generate_diag_cfg writes the Disable       *)
(* command and then what enable_logs writes for the same request:          *)
(* the debug-subsystem commands, if any, before the SET_MASK commands,     *)
(* and these with ascending ids.                                           *)
(***************************************************************************)
C6_ConfigExportOrdering ==
    (/\ call.op = "generate_diag_cfg" /\ WentThrough
     /\ live.op = "enable_logs" /\ "write" \in live.obj /\ ~live.pyerr) =>
        /\ call.log = <<DisableCmd>> \o live.log
        /\ \A d \in DebugIdx(call.log), m \in MaskIdx(call.log) : d < m
        /\ \A m, n \in MaskIdx(call.log) :
              m < n => \A a \in Range(call.log[m].ids),
                          b \in Range(call.log[n].ids) : a < b

C6_Witness ==
    /\ call.op = "generate_diag_cfg" /\ WentThrough
    /\ live.op = "enable_logs" /\ "write" \in live.obj /\ ~live.pyerr
    /\ DebugIdx(call.log) # {}
    /\ MaskIdx(call.log) # {}
    /\ Len(live.log) >= 3

(***************************************************************************)
(* C7: a call during which a write failed does not report success, and     *)
(* hands no command to write twice.                                        *)
(***************************************************************************)
C7_WriteFailurePropagates ==
    call.wfailed =>
        /\ call.result \notin {"True", "crash"}
        /\ \A i, j \in 1..Len(call.log) : i # j => call.log[i] # call.log[j]

(***************************************************************************)
(* C8: an outbound call given an object without write raises TypeError     *)
(* at once, without calling write or leaving any other trace.              *)
(***************************************************************************)
C8_CapabilityCheck ==
    (call.op # "none" /\ "write" \notin call.obj) =>
        /\ call.result = "TypeError"
        /\ call.log = << >>
        /\ ~call.pyerr

(***************************************************************************)
(* C9: a receive_log_packet call that finds a frame with a wrong checksum  *)
(* at the head of the buffer takes that frame, returns None and leaves     *)
(* the later frames and the unfinished bytes as they were.                 *)
(***************************************************************************)
C9_ChecksumMismatch ==
    [][(/\ in_call' = "receive_log_packet"
        /\ buffer # << >>
        /\ ~Head(buffer).crc)
          => (/\ ret' = NoneRet
              /\ taken' = Head(buffer)
              /\ buffer' = Tail(buffer)
              /\ partial' = partial)]_vars

C9_Witness ==
    /\ in_call = "receive_log_packet"
    /\ taken # NoFrame /\ ~taken.crc /\ taken.is_log
    /\ ret = NoneRet
    /\ buffer # << >> /\ buffer[1].crc

(***************************************************************************)
(* C10: when receive_log_packet returns None, no complete frame is left    *)
(* in the buffer.                                                          *)
(***************************************************************************)
C10_DrainUntilNone ==
    (in_call = "receive_log_packet" /\ ret = NoneRet) => buffer = << >>

Decodable(f) == f.crc /\ (f.is_log \/ f.is_debug)

(***************************************************************************)
(* C10 (amended): when every complete frame in the buffer has a matching   *)
(* checksum and is a log or a debug packet, a receive_log_packet call      *)
(* that returns None took no frame and leaves no complete frame.           *)
(***************************************************************************)
C10_DrainUntilNoneAmended ==
    [][(/\ in_call' = "receive_log_packet"
        /\ ret' = NoneRet
        /\ \A k \in 1..Len(buffer) : Decodable(buffer[k]))
          => (buffer' = << >> /\ taken' = NoFrame)]_vars

C10_Witness ==
    /\ in_call = "receive_log_packet"
    /\ ret = NoneRet
    /\ taken = NoFrame
    /\ buffer = << >>
    /\ partial > 0

(***************************************************************************)
(* C15: the SET_MASK commands of the enable path are the maximal runs of   *)
(* the sorted, deduplicated ids: none is empty, ids ascend strictly        *)
(* within a command and from one command to the next, and two              *)
(* consecutive commands never have the same equipment id.                  *)
(***************************************************************************)
MaskSeq(log) == SelectSeq(log, LAMBDA c : c.op = "SET_MASK")

C15_MaximalRuns ==
    (EnablePath /\ WentThrough) =>
        LET m == MaskSeq(call.log) IN
        /\ \A k \in 1..Len(m) :
              /\ Len(m[k].ids) > 0
              /\ \A i, j \in 1..Len(m[k].ids) :
                    i < j => /\ m[k].ids[i] < m[k].ids[j]
                             /\ get_equip_id(m[k].ids[i])
                                   = get_equip_id(m[k].ids[j])
        /\ \A k \in 1..(Len(m) - 1) :
              LET a == m[k].ids[Len(m[k].ids)]
                  b == m[k + 1].ids[1]
              IN  a < b /\ get_equip_id(a) # get_equip_id(b)
        /\ UNION {Range(m[k].ids) : k \in 1..Len(m)} \subseteq RequestedIds
        /\ RequestedIds \ {Modem_debug_message}
              \subseteq UNION {Range(m[k].ids) : k \in 1..Len(m)}

C15_Witness ==
    /\ call.op = "enable_logs" /\ WentThrough
    /\ Len(MaskSeq(call.log)) = 2
    /\ \E k \in 1..2 : Len(MaskSeq(call.log)[k].ids) = 2

(***************************************************************************)
(* C18: a receive_log_packet call takes at most one frame; a frame with a  *)
(* matching checksum that is neither a log nor a debug packet is taken     *)
(* and yields None; the debug branch is taken only for a frame with a      *)
(* matching checksum that is no log packet; a frame that passes both       *)
(* checks is decoded as a log packet, without a synthesized header.        *)
(***************************************************************************)
C18_UnrecognizedFrames ==
    [][in_call' = "receive_log_packet" =>
        IF buffer = << >>
        THEN buffer' = << >> /\ taken' = NoFrame /\ ret'.path # "debug"
        ELSE LET h == Head(buffer) IN
             /\ buffer' = Tail(buffer)
             /\ taken' = h
             /\ (h.crc /\ ~h.is_log /\ ~h.is_debug) => ret' = NoneRet
             /\ ret'.path = "debug" => (h.crc /\ ~h.is_log /\ h.is_debug)
             /\ (h.crc /\ h.is_log) =>
                   (ret'.path = "log" /\ ret'.header = << >>)]_vars

C18_Witness ==
    /\ in_call = "receive_log_packet"
    /\ taken.crc /\ taken.is_log /\ taken.is_debug
    /\ ret.path = "log"
    /\ buffer # << >>

(***************************************************************************)
(* C19: for a request that is empty or holds only items that are not       *)
(* strings, enable_logs returns True and writes nothing, and               *)
(* generate_diag_cfg returns True and writes the Disable command alone.    *)
(***************************************************************************)
EmptyRequest ==
    IsNameSeq /\ \A k \in 1..Len(type_names) : ~PyString_Check(type_names[k])

C19_EmptyRequest ==
    /\ (call.op = "enable_logs" /\ "read" \in call.obj /\ EmptyRequest)
          => (call.result = "True" /\ call.log = << >>)
    /\ (/\ call.op = "generate_diag_cfg" /\ "write" \in call.obj
        /\ EmptyRequest /\ call.bad = NoOp /\ ~call.pyerr)
          => (call.result = "True" /\ call.log = <<DisableCmd>>)

C19_Witness ==
    /\ call.op = "generate_diag_cfg"
    /\ Len(type_names) = 2 /\ EmptyRequest
    /\ call.result = "True" /\ call.log = <<DisableCmd>>
    /\ live.op = "enable_logs" /\ live.log = << >>

(***************************************************************************)
(* C16: when the requested ids hold the debug-message id, the two          *)
(* debug-subsystem commands, LTE ML1 then WCDMA L1, come before every      *)
(* SET_MASK and both carry the sorted, deduplicated requested ids without  *)
(* the debug-message id.                                                   *)
(***************************************************************************)
RECURSIVE SortedSeqOf(_)
SortedSeqOf(S) ==
    IF S = {} THEN << >>
    ELSE LET lo == CHOOSE x \in S : \A y \in S : x <= y
         IN  <<lo>> \o SortedSeqOf(S \ {lo})

DebugSeq(log) ==
    SelectSeq(log, LAMBDA c : c.op \in {"DEBUG_LTE_ML1", "DEBUG_WCDMA_L1"})

C16_DebugPayload ==
    (EnablePath /\ WentThrough /\ Modem_debug_message \in RequestedIds) =>
        LET d == DebugSeq(call.log)
            expected == SortedSeqOf(RequestedIds \ {Modem_debug_message})
        IN  /\ Len(d) = 2
            /\ d[1].op = "DEBUG_LTE_ML1" /\ d[2].op = "DEBUG_WCDMA_L1"
            /\ \A i \in DebugIdx(call.log), m \in MaskIdx(call.log) : i < m
            /\ d[1].ids = expected /\ d[2].ids = expected

(***************************************************************************)
(* C17: when the k-th command of an enable or config batch encodes to an   *)
(* empty buffer, the call raises RuntimeError, the commands before the     *)
(* k-th were each written once, in order, and nothing else was written.    *)
(* The batch is the one a successful enable_logs wrote for the request.    *)
(***************************************************************************)
FullBatch ==
    IF call.op = "generate_diag_cfg" THEN <<DisableCmd>> \o live.log
    ELSE live.log

C17_EncodeFailureAborts ==
    (/\ EnablePath /\ call.bad # NoOp
     /\ "write" \in call.obj /\ ~call.pyerr
     /\ live.op = "enable_logs" /\ "write" \in live.obj /\ ~live.pyerr) =>
        /\ call.result = "RuntimeError"
        /\ \E k \in 1..Len(FullBatch) :
              /\ FullBatch[k].op = call.bad
              /\ \A m \in 1..(k - 1) : FullBatch[m].op # call.bad
              /\ call.log = SubSeq(FullBatch, 1, k - 1)

C17_Witness ==
    /\ call.op = "generate_diag_cfg" /\ call.bad = "SET_MASK"
    /\ "write" \in call.obj /\ ~call.pyerr
    /\ live.op = "enable_logs" /\ "write" \in live.obj /\ ~live.pyerr
    /\ call.result = "RuntimeError"
    /\ Len(call.log) = 3

(***************************************************************************)
(* C14: disable_logs on an object with read and write, whatever was        *)
(* called before, hands exactly one buffer to write, the Disable command   *)
(* with no ids, and leaves the inbound buffer and its bookkeeping alone.   *)
(***************************************************************************)
C14_Disable ==
    /\ []((/\ call.op = "disable_logs"
           /\ {"read", "write"} \subseteq call.obj
           /\ call.bad = NoOp)
             => call.log = <<DisableCmd>>)
    /\ [][call'.op = "disable_logs" => UNCHANGED <<pkt_vars, raw>>]_vars

C14_Witness ==
    /\ call.op = "disable_logs"
    /\ call.result = "True"
    /\ call.log = <<DisableCmd>>
    /\ live.op = "enable_logs" /\ Len(live.log) > 0
    /\ buffer # << >> /\ partial > 0

(***************************************************************************)
(* Framing on bytes                                                        *)
(***************************************************************************)
\* a non-flag byte with a flag somewhere after it
HoldsCompleteFrame(raw_buf) ==
    \E i, j \in 1..Len(raw_buf) :
        i < j /\ raw_buf[i] # Flag /\ raw_buf[j] = Flag

SentFrame == [data |-> payload, crc |-> TRUE]

\* C11: round trip.  Of the encoded frame of any payload, fed into the empty
\* buffer, the deframer produces nothing but that payload with a correct
\* checksum; once all bytes are fed and a take has returned none, it has
\* produced exactly that one frame and the buffer holds no complete frame.
C11_RoundTrip ==
    /\ out \in {<< >>, <<SentFrame>>}
    /\ (pending = << >> /\ took = "none")
          => out = <<SentFrame>> /\ ~HoldsCompleteFrame(raw)

C11_Witness ==
    /\ pending = << >>
    /\ took = "none"
    /\ out = <<SentFrame>>
    /\ {Flag, Esc} \subseteq Range(payload)

RECURSIVE DrainAll(_)
DrainAll(raw_buf) ==
    LET g == hdlc_get_next_frame(raw_buf) IN
        IF g.success
        THEN <<[data |-> g.data, crc |-> g.crc_correct]>> \o DrainAll(g.rest)
        ELSE << >>

\* what one feed_binary call with the whole frame, then takes until none,
\* produce
SingleFeed == DrainAll(dm_feed_binary(<< >>, send_msg_frame(payload)))

\* C12: split-feed equivalence.  While a part of the frame is still to be
\* fed, a take returns none, nothing has been produced and the bytes fed so
\* far are all in the buffer; once the rest is fed and the takes have
\* reached none, the frames produced are those of a single feed.
C12_SplitFeed ==
    /\ pending # << >>
          => /\ took # "frame"
             /\ out = << >>
             /\ raw \o pending = send_msg_frame(payload)
    /\ (pending = << >> /\ took = "none") => out = SingleFeed

\* the first chunk ended inside an escape sequence and a take came between
C12_Witness ==
    /\ feeds = 1
    /\ pending # << >>
    /\ took = "none"
    /\ raw # << >>
    /\ raw[Len(raw)] = Esc

\* C13: drain idempotence.  A take on a buffer that holds no complete frame
\* returns none and leaves the buffer, a buffered partial frame included,
\* and the frames produced as they were, however often it is repeated.
C13_DrainIdempotent ==
    [][(took' # "-" /\ ~HoldsCompleteFrame(raw))
          => (took' = "none" /\ raw' = raw /\ out' = out)]_vars

\* a second none in a row with a partial frame buffered
C13_Witness ==
    /\ took = "none"
    /\ raw # << >>
    /\ ~HoldsCompleteFrame(raw)
    /\ Len(raw) > 1
    /\ pending # << >>

====
